---- MODULE Spec2Model ----
(***************************************************************************)
(* Model of the job-tracker data-access layer (data_provider.DataProvider) *)
(* over a MySQL connection with autocommit disabled.                       *)
(*                                                                         *)
(* The database is five tables.  `db` is the committed (persisted)        *)
(* content, `work` is what the connection's statements see and change     *)
(* (equal to `db` whenever no transaction is open), `inTxn` says whether  *)
(* the connection has an open transaction.  Every public method of the    *)
(* DataProvider is one action; the driver calls it makes (cursor,         *)
(* execute, fetch, commit, rollback, cursor close) are recorded, in       *)
(* order, in the trace of the call.  Any driver call may raise: the set F *)
(* of a call names the driver calls that raise during it, and a call that *)
(* raises has no effect on the database or on the transaction.            *)
(* `connected` is what the connection's is_connected() reports; on a      *)
(* closed connection cursor() raises.  `scope` is the position of the     *)
(* caller relative to a with-statement over the DataProvider.  `pending`  *)
(* is the update of this instance that has run its UPDATE and not yet its *)
(* existence check, when other instances work on the same database.       *)
(***************************************************************************)
EXTENDS Integers, Sequences, FiniteSets, TLC

VARIABLES db, work, inTxn, autoinc, on_delete, connected, scope, pending, pc, last, nwrites

vars == <<db, work, inTxn, autoinc, on_delete, connected, scope, pending, pc, last, nwrites>>

\* ------------------------------------------------------------------ bounds
MaxId == 2
MaxWrites == 1

\* ------------------------------------------------------------- data model
\* Python's None: for an Optional[int] identifier, for an Optional[str]
\* column, for an Optional object.
NoneId == 0
NoneStr == "None"
NoneObj == [none |-> TRUE]

Ids == 1..MaxId
OptIds == {NoneId} \cup Ids

StatusType ==
    {"SAVED", "APPLIED", "SCREEN", "INTERVIEW", "ASSESSMENT", "OFFER",
     "ACCEPTED", "REJECTED", "WITHDRAWN", "GHOSTED"}

\* status.status.value: a StrEnum member is the string that is its value.
StatusValue(s) ==
    s

\* StatusType(row["s_status"]): the member a stored string denotes; a string
\* that is no member raises ValueError in Python.
StatusFromValue(str) ==
    IF str \in StatusType THEN str ELSE "ValueError"

Tables == {"company", "contact", "job_posting", "application", "application_status"}

AutoCommit == FALSE

\* The field values the callers pass (two per entity, differing in every
\* field, the second with its optional fields None).
CompanyVals ==
    { [name |-> "Acme", website |-> "https://acme.test", company_location |-> "Remote"],
      [name |-> "Globex", website |-> NoneStr, company_location |-> "Austin, TX"] }

ContactVals ==
    { [full_name |-> "Ann", title |-> "CTO", email |-> "ann@acme.test",
       phone |-> "555-1", linkedin |-> "in/ann"],
      [full_name |-> "Bob", title |-> NoneStr, email |-> NoneStr,
       phone |-> NoneStr, linkedin |-> NoneStr] }

JobVals ==
    { [job_title |-> "Engineer", job_location |-> "Remote", employment_type |-> "FULL",
       job_url |-> "https://acme.test/j", salary |-> "100000.00", posted_date |-> "2026-01-01"],
      [job_title |-> "Analyst", job_location |-> NoneStr, employment_type |-> NoneStr,
       job_url |-> NoneStr, salary |-> NoneStr, posted_date |-> NoneStr] }

ApplicationVals ==
    { [applied_date |-> "2026-01-02", source |-> "referral", priority |-> "1",
       resume |-> "cv.pdf"],
      [applied_date |-> NoneStr, source |-> NoneStr, priority |-> NoneStr,
       resume |-> NoneStr] }

StatusVals == {"SCREEN", "OFFER"}

\* The value objects of models.py.
Companies ==
    { [company_id |-> i, name |-> v.name, website |-> v.website,
       company_location |-> v.company_location] : i \in OptIds, v \in CompanyVals }

Contacts ==
    { [contact_id |-> i, company_id |-> c, full_name |-> v.full_name, title |-> v.title,
       email |-> v.email, phone |-> v.phone, linkedin |-> v.linkedin] :
      i \in OptIds, c \in Ids, v \in ContactVals }

JobPostings ==
    { [job_id |-> i, company_id |-> c, job_title |-> v.job_title,
       job_location |-> v.job_location, employment_type |-> v.employment_type,
       job_url |-> v.job_url, salary |-> v.salary, posted_date |-> v.posted_date] :
      i \in OptIds, c \in Ids, v \in JobVals }

Applications ==
    { [application_id |-> i, job_id |-> j, applied_date |-> v.applied_date,
       source |-> v.source, priority |-> v.priority, resume |-> v.resume] :
      i \in OptIds, j \in Ids, v \in ApplicationVals }

\* ---------------------------------------------------------------- schema
\* A table is a function from the primary keys of its rows to the rows.
EmptyTable == [i \in {} |-> NoneObj]

EmptyDb ==
    [company |-> EmptyTable, contact |-> EmptyTable, job_posting |-> EmptyTable,
     application |-> EmptyTable, application_status |-> EmptyTable]

PkCol(table) ==
    CASE table = "company" -> "company_id"
      [] table = "contact" -> "contact_id"
      [] table = "job_posting" -> "job_id"
      [] table = "application" -> "application_id"
      [] table = "application_status" -> "status_id"

\* Every foreign key of `row` references a row of t.
FkOk(t, table, row) ==
    CASE table = "company" -> TRUE
      [] table = "contact" -> row.company_id \in DOMAIN t.company
      [] table = "job_posting" -> row.company_id \in DOMAIN t.company
      [] table = "application" -> row.job_id \in DOMAIN t.job_posting
      [] table = "application_status" ->
            /\ row.application_id \in DOMAIN t.application
            /\ row.contact_id = NoneId \/ row.contact_id \in DOMAIN t.contact

\* The rows of t that go when the row `id` of `table` goes, per table: the
\* row itself and the rows that reference a row that goes.
Doomed(t, table, id) ==
    LET C == IF table = "company" THEN {id} \cap DOMAIN t.company ELSE {}
        K == (IF table = "contact" THEN {id} \cap DOMAIN t.contact ELSE {})
             \cup {k \in DOMAIN t.contact : t.contact[k].company_id \in C}
        J == (IF table = "job_posting" THEN {id} \cap DOMAIN t.job_posting ELSE {})
             \cup {j \in DOMAIN t.job_posting : t.job_posting[j].company_id \in C}
        A == (IF table = "application" THEN {id} \cap DOMAIN t.application ELSE {})
             \cup {a \in DOMAIN t.application : t.application[a].job_id \in J}
        S == (IF table = "application_status"
                 THEN {id} \cap DOMAIN t.application_status ELSE {})
             \cup {s \in DOMAIN t.application_status :
                     \/ t.application_status[s].application_id \in A
                     \/ t.application_status[s].contact_id \in K}
    IN  [company |-> C, contact |-> K, job_posting |-> J, application |-> A,
         application_status |-> S]

Without(tab, ids) ==
    [i \in DOMAIN tab \ ids |-> tab[i]]

\* ------------------------------------------------------- SQL statements
\* The effect of one statement on the world w = [db, work, inTxn, autoinc,
\* on_delete]:
\* ok (FALSE: the server rejects it, IntegrityError), the connection's view
\* after it, the AUTO_INCREMENT counters, cursor.lastrowid, cursor.rowcount.

\* An INSERT that the server accepts whatever its foreign keys reference.
SqlInsert_NoFkCheck(w, table, cols) ==
    LET id == w.autoinc[table]
        row == (PkCol(table) :> id) @@ cols
    IN  [ok |-> TRUE,
         work |-> [w.work EXCEPT ![table] = (id :> row) @@ w.work[table]],
         autoinc |-> [w.autoinc EXCEPT ![table] = id + 1],
         lastrowid |-> id, rowcount |-> 1]

\* INSERT INTO table (cols) VALUES (...): the new row takes the table's next
\* AUTO_INCREMENT value as its primary key.
SqlInsert(w, table, cols) ==
    LET id == w.autoinc[table]
        row == (PkCol(table) :> id) @@ cols
    IN  IF FkOk(w.work, table, cols)
          THEN [ok |-> TRUE,
                work |-> [w.work EXCEPT ![table] = (id :> row) @@ w.work[table]],
                autoinc |-> [w.autoinc EXCEPT ![table] = id + 1],
                lastrowid |-> id, rowcount |-> 1]
          ELSE [ok |-> FALSE, work |-> w.work, autoinc |-> w.autoinc,
                lastrowid |-> 0, rowcount |-> 0]

\* UPDATE table SET cols WHERE pk = id: rowcount is the number of rows
\* changed, 0 for a row that already holds these values.
SqlUpdate(w, table, id, cols) ==
    LET tab == w.work[table]
        row == (PkCol(table) :> id) @@ cols
    IN  IF id \notin DOMAIN tab \/ tab[id] = row
          THEN [ok |-> TRUE, work |-> w.work, autoinc |-> w.autoinc,
                lastrowid |-> 0, rowcount |-> 0]
          ELSE IF FkOk(w.work, table, cols)
            THEN [ok |-> TRUE, work |-> [w.work EXCEPT ![table] = [tab EXCEPT ![id] = row]],
                  autoinc |-> w.autoinc, lastrowid |-> 0, rowcount |-> 1]
            ELSE [ok |-> FALSE, work |-> w.work, autoinc |-> w.autoinc,
                  lastrowid |-> 0, rowcount |-> 0]

\* DELETE FROM table WHERE pk = id.  A row that other rows reference is
\* refused (ON DELETE RESTRICT) or goes with them (ON DELETE CASCADE);
\* rowcount counts the rows of `table` alone.
SqlDelete(w, table, id) ==
    LET d == Doomed(w.work, table, id)
        referenced == \E x \in Tables : d[x] \ (IF x = table THEN {id} ELSE {}) # {}
    IN  IF id \notin DOMAIN w.work[table]
          THEN [ok |-> TRUE, work |-> w.work, autoinc |-> w.autoinc,
                lastrowid |-> 0, rowcount |-> 0]
          ELSE IF referenced /\ w.on_delete = "RESTRICT"
            THEN [ok |-> FALSE, work |-> w.work, autoinc |-> w.autoinc,
                  lastrowid |-> 0, rowcount |-> 0]
            ELSE [ok |-> TRUE,
                  work |-> [company |-> Without(w.work.company, d.company),
                            contact |-> Without(w.work.contact, d.contact),
                            job_posting |-> Without(w.work.job_posting, d.job_posting),
                            application |-> Without(w.work.application, d.application),
                            application_status |->
                                Without(w.work.application_status, d.application_status)],
                  autoinc |-> w.autoinc, lastrowid |-> 0, rowcount |-> 1]

\* --------------------------------------------------- internal helpers
\* A call's outcome: the world after it, the exception that reaches the
\* caller (NoExc: it returns), the value it returns, the driver calls it made
\* in order (a "!" marks one that raised).
NoExc == ""

Outcome(w, exc, val, trace) ==
    [w |-> w, exc |-> exc, val |-> val, trace |-> trace]

\* _execute: cursor(), then execute and fetch inside try, then in finally
\* cur.close() and, autocommit being off, rollback() with its failure
\* swallowed.  `rows` is what the SELECT yields on the connection's view.
_execute(w, rows, fetch, F) ==
    IF "cursor" \in F \/ ~w.connected
      THEN Outcome(w, "cursor", NoneObj, <<"cursor!">>)
      ELSE
        LET execOk == "execute" \notin F
            fetchOk == "fetch" \notin F
            closeOk == "close" \notin F
            rbOk == "rollback" \notin F
            w1 == IF execOk THEN [w EXCEPT !.inTxn = TRUE] ELSE w
            bodyExc == IF ~execOk THEN "execute"
                       ELSE IF fetch # "none" /\ ~fetchOk THEN "fetch" ELSE NoExc
            bodyVal == IF bodyExc # NoExc \/ fetch = "none" THEN NoneObj
                       ELSE IF fetch = "one"
                         THEN (IF rows = <<>> THEN NoneObj ELSE Head(rows))
                         ELSE rows
            bodyTrace == <<"cursor">>
                         \o (IF execOk THEN <<"execute">> ELSE <<"execute!">>)
                         \o (IF execOk /\ fetch # "none"
                               THEN (IF fetchOk THEN <<"fetch">> ELSE <<"fetch!">>)
                               ELSE <<>>)
        IN  IF ~closeOk
              THEN Outcome(w1, "close", NoneObj, bodyTrace \o <<"close!">>)
              ELSE IF AutoCommit
                THEN Outcome(w1, bodyExc, bodyVal, bodyTrace \o <<"close">>)
                ELSE IF rbOk
                  THEN Outcome([w1 EXCEPT !.work = w1.db, !.inTxn = FALSE], bodyExc, bodyVal,
                               bodyTrace \o <<"close", "rollback">>)
                  ELSE Outcome(w1, bodyExc, bodyVal, bodyTrace \o <<"close", "rollback!">>)
\* The except clause without its rollback(): the error is re-raised at once.
WriteFailed_NoRollback(w, exc, trace, F) ==
    IF "close" \in F
      THEN Outcome(w, "close", 0, trace \o <<"close!">>)
      ELSE Outcome(w, exc, 0, trace \o <<"close">>)

\* The except and finally clauses the two write helpers share: after the
\* exception exc of the try body, rollback() and re-raise, then cur.close().
WriteFailed(w, exc, trace, F) ==
    LET rbOk == "rollback" \notin F
        w1 == IF rbOk THEN [w EXCEPT !.work = w.db, !.inTxn = FALSE] ELSE w
        exc1 == IF rbOk THEN exc ELSE "rollback"
        tr1 == trace \o (IF rbOk THEN <<"rollback">> ELSE <<"rollback!">>)
    IN  IF "close" \in F
          THEN Outcome(w1, "close", 0, tr1 \o <<"close!">>)
          ELSE Outcome(w1, exc1, 0, tr1 \o <<"close">>)

\* The try body the two write helpers share: execute the statement st, read
\* the counter `field` of the cursor, commit.
WriteBody(w, st, field, F) ==
    IF "cursor" \in F \/ ~w.connected
      THEN Outcome(w, "cursor", 0, <<"cursor!">>)
      ELSE IF "execute" \in F
        THEN WriteFailed(w, "execute", <<"cursor", "execute!">>, F)
        ELSE IF ~st.ok
          THEN WriteFailed(w, "IntegrityError", <<"cursor", "execute!">>, F)
          ELSE
            LET w1 == [w EXCEPT !.work = st.work, !.autoinc = st.autoinc, !.inTxn = TRUE]
            IN  IF "commit" \in F
                  THEN WriteFailed(w1, "commit", <<"cursor", "execute", "commit!">>, F)
                  ELSE
                    LET w2 == [w1 EXCEPT !.db = w1.work, !.inTxn = FALSE]
                        tr == <<"cursor", "execute", "commit">>
                    IN  IF "close" \in F
                          THEN Outcome(w2, "close", 0, tr \o <<"close!">>)
                          ELSE Outcome(w2, NoExc, st[field], tr \o <<"close">>)

\* _execute_write: returns int(cur.lastrowid or 0).
_execute_write(w, st, F) ==
    WriteBody(w, st, "lastrowid", F)

\* _execute_update_delete: returns int(cur.rowcount or 0).
_execute_update_delete(w, st, F) ==
    WriteBody(w, st, "rowcount", F)

\* ORDER BY pk DESC.
RECURSIVE OrderBy_Descending(_, _)
OrderBy_Descending(tab, ids) ==
    IF ids = {} THEN <<>>
    ELSE LET m == CHOOSE i \in ids : \A j \in ids : i >= j
         IN  <<tab[m]>> \o OrderBy_Descending(tab, ids \ {m})


\* ORDER BY pk: the rows of a table in ascending primary-key order.
RECURSIVE OrderBy(_, _)
OrderBy(tab, ids) ==
    IF ids = {} THEN <<>>
    ELSE LET m == CHOOSE i \in ids : \A j \in ids : i <= j
         IN  <<tab[m]>> \o OrderBy(tab, ids \ {m})

\* SELECT ... FROM table WHERE pk = id.
SelectById(w, table, id) ==
    IF id \in DOMAIN w.work[table] THEN <<w.work[table][id]>> ELSE <<>>

\* SELECT ... FROM table ORDER BY pk.
SelectAll(w, table) ==
    OrderBy(w.work[table], DOMAIN w.work[table])

\* _exists: SELECT 1 FROM table WHERE pk_col = pk_value LIMIT 1; row is not None.
_exists(w, table, pk_col, pk_value, F) ==
    LET rows == IF \E i \in DOMAIN w.work[table] : w.work[table][i][pk_col] = pk_value
                  THEN <<[one |-> 1]>> ELSE <<>>
        r == _execute(w, rows, "one", F)
    IN  IF r.exc # NoExc THEN r ELSE [r EXCEPT !.val = (r.val # NoneObj)]

\* ------------------------------------------------- row -> object mappers
_company_from_row(row) ==
    [company_id |-> row.company_id, name |-> row.name, website |-> row.website,
     company_location |-> row.company_location]

_contact_from_row(row) ==
    [contact_id |-> row.contact_id, company_id |-> row.company_id,
     full_name |-> row.full_name, title |-> row.title, email |-> row.email,
     phone |-> row.phone, linkedin |-> row.linkedin]

_job_posting_from_row(row) ==
    [job_id |-> row.job_id, company_id |-> row.company_id, job_title |-> row.job_title,
     job_location |-> row.job_location, employment_type |-> row.employment_type,
     job_url |-> row.job_url, salary |-> row.salary, posted_date |-> row.posted_date]

_application_from_row(row) ==
    [application_id |-> row.application_id, job_id |-> row.job_id,
     applied_date |-> row.applied_date, source |-> row.source,
     priority |-> row.priority, resume |-> row.resume]

\* The join's select list with j.job_location under the alias
\* c_company_location.
JoinRow_JobLocation(t, s) ==
    LET a == t.application[s.application_id]
        j == t.job_posting[a.job_id]
        c == t.company[j.company_id]
        hasCt == s.contact_id \in DOMAIN t.contact
        ct == IF hasCt THEN t.contact[s.contact_id] ELSE NoneObj
    IN  [s_status_id |-> s.status_id, s_status |-> s.status,
         a_application_id |-> a.application_id, a_job_id |-> a.job_id,
         a_applied_date |-> a.applied_date, a_source |-> a.source,
         a_priority |-> a.priority, a_resume |-> a.resume,
         j_job_id |-> j.job_id, j_company_id |-> j.company_id,
         j_job_title |-> j.job_title, j_job_location |-> j.job_location,
         j_employment_type |-> j.employment_type, j_job_url |-> j.job_url,
         j_salary |-> j.salary, j_posted_date |-> j.posted_date,
         c_company_id |-> c.company_id, c_name |-> c.name, c_website |-> c.website,
         c_company_location |-> j.job_location,
         ct_contact_id |-> IF hasCt THEN ct.contact_id ELSE NoneId,
         ct_company_id |-> IF hasCt THEN ct.company_id ELSE NoneId,
         ct_full_name |-> IF hasCt THEN ct.full_name ELSE NoneStr,
         ct_title |-> IF hasCt THEN ct.title ELSE NoneStr,
         ct_email |-> IF hasCt THEN ct.email ELSE NoneStr,
         ct_phone |-> IF hasCt THEN ct.phone ELSE NoneStr,
         ct_linkedin |-> IF hasCt THEN ct.linkedin ELSE NoneStr]
\* One row of _STATUS_JOIN_SELECT for the status row s: the inner joins drop
\* a status whose application, job or company is missing; the left join
\* leaves the ct_ columns NULL when no contact matches.
JoinRow(t, s) ==
    LET a == t.application[s.application_id]
        j == t.job_posting[a.job_id]
        c == t.company[j.company_id]
        hasCt == s.contact_id \in DOMAIN t.contact
        ct == IF hasCt THEN t.contact[s.contact_id] ELSE NoneObj
    IN  [s_status_id |-> s.status_id, s_status |-> s.status,
         a_application_id |-> a.application_id, a_job_id |-> a.job_id,
         a_applied_date |-> a.applied_date, a_source |-> a.source,
         a_priority |-> a.priority, a_resume |-> a.resume,
         j_job_id |-> j.job_id, j_company_id |-> j.company_id,
         j_job_title |-> j.job_title, j_job_location |-> j.job_location,
         j_employment_type |-> j.employment_type, j_job_url |-> j.job_url,
         j_salary |-> j.salary, j_posted_date |-> j.posted_date,
         c_company_id |-> c.company_id, c_name |-> c.name, c_website |-> c.website,
         c_company_location |-> c.company_location,
         ct_contact_id |-> IF hasCt THEN ct.contact_id ELSE NoneId,
         ct_company_id |-> IF hasCt THEN ct.company_id ELSE NoneId,
         ct_full_name |-> IF hasCt THEN ct.full_name ELSE NoneStr,
         ct_title |-> IF hasCt THEN ct.title ELSE NoneStr,
         ct_email |-> IF hasCt THEN ct.email ELSE NoneStr,
         ct_phone |-> IF hasCt THEN ct.phone ELSE NoneStr,
         ct_linkedin |-> IF hasCt THEN ct.linkedin ELSE NoneStr]
Joins(t, s) ==
    /\ s.application_id \in DOMAIN t.application
    /\ t.application[s.application_id].job_id \in DOMAIN t.job_posting
    /\ t.job_posting[t.application[s.application_id].job_id].company_id \in DOMAIN t.company

\* _STATUS_JOIN_SELECT over the status rows `ids`, in ascending status_id.
RECURSIVE _STATUS_JOIN_SELECT(_, _)
_STATUS_JOIN_SELECT(t, ids) ==
    IF ids = {} THEN <<>>
    ELSE LET m == CHOOSE i \in ids : \A k \in ids : i <= k
             s == t.application_status[m]
         IN  (IF Joins(t, s) THEN <<JoinRow(t, s)>> ELSE <<>>)
             \o _STATUS_JOIN_SELECT(t, ids \ {m})
\* The join-row mapper without the test of ct_contact_id: a Contact is built
\* from the ct_ columns whatever they hold.
_application_status_from_join_row_AlwaysContact(row) ==
    [company |-> [company_id |-> row.c_company_id, name |-> row.c_name,
                  website |-> row.c_website,
                  company_location |-> row.c_company_location],
     contact |-> [contact_id |-> row.ct_contact_id, company_id |-> row.ct_company_id,
                  full_name |-> row.ct_full_name, title |-> row.ct_title,
                  email |-> row.ct_email, phone |-> row.ct_phone,
                  linkedin |-> row.ct_linkedin],
     job |-> [job_id |-> row.j_job_id, company_id |-> row.j_company_id,
              job_title |-> row.j_job_title, job_location |-> row.j_job_location,
              employment_type |-> row.j_employment_type, job_url |-> row.j_job_url,
              salary |-> row.j_salary, posted_date |-> row.j_posted_date],
     application |-> [application_id |-> row.a_application_id, job_id |-> row.a_job_id,
                      applied_date |-> row.a_applied_date, source |-> row.a_source,
                      priority |-> row.a_priority, resume |-> row.a_resume],
     status_id |-> row.s_status_id,
     status |-> StatusFromValue(row.s_status)]


_application_status_from_join_row(row) ==
    LET company == [company_id |-> row.c_company_id, name |-> row.c_name,
                    website |-> row.c_website,
                    company_location |-> row.c_company_location]
        job == [job_id |-> row.j_job_id, company_id |-> row.j_company_id,
                job_title |-> row.j_job_title, job_location |-> row.j_job_location,
                employment_type |-> row.j_employment_type, job_url |-> row.j_job_url,
                salary |-> row.j_salary, posted_date |-> row.j_posted_date]
        application == [application_id |-> row.a_application_id, job_id |-> row.a_job_id,
                        applied_date |-> row.a_applied_date, source |-> row.a_source,
                        priority |-> row.a_priority, resume |-> row.a_resume]
        contact == IF row.ct_contact_id = NoneId
                     THEN NoneObj
                     ELSE [contact_id |-> row.ct_contact_id,
                           company_id |-> row.ct_company_id,
                           full_name |-> row.ct_full_name, title |-> row.ct_title,
                           email |-> row.ct_email, phone |-> row.ct_phone,
                           linkedin |-> row.ct_linkedin]
    IN  [company |-> company, contact |-> contact, job |-> job,
         application |-> application, status_id |-> row.s_status_id,
         status |-> StatusFromValue(row.s_status)]

\* mapper(row) for the mapper a read method passes to _read_one / _read_many.
ApplyMapper(mapper, row) ==
    CASE mapper = "_company_from_row" -> _company_from_row(row)
      [] mapper = "_contact_from_row" -> _contact_from_row(row)
      [] mapper = "_job_posting_from_row" -> _job_posting_from_row(row)
      [] mapper = "_application_from_row" -> _application_from_row(row)
      [] mapper = "_application_status_from_join_row" -> _application_status_from_join_row(row)

\* [mapper(r) for r in rows]
MapSeq(s, mapper) ==
    [i \in 1..Len(s) |-> ApplyMapper(mapper, s[i])]

\* _read_one treating "no row" as a failure.
_read_one_RaisesOnMissing(w, rows, mapper, F) ==
    LET r == _execute(w, rows, "one", F)
    IN  IF r.exc # NoExc THEN r
        ELSE IF r.val = NoneObj THEN [r EXCEPT !.exc = "NotFound"]
        ELSE [r EXCEPT !.val = ApplyMapper(mapper, r.val)]

\* _read_one: None if no row, else mapper(row).
_read_one(w, rows, mapper, F) ==
    LET r == _execute(w, rows, "one", F)
    IN  IF r.exc # NoExc \/ r.val = NoneObj THEN r ELSE [r EXCEPT !.val = ApplyMapper(mapper, r.val)]

\* _read_many: [mapper(r) for r in rows].
_read_many(w, rows, mapper, F) ==
    LET r == _execute(w, rows, "all", F)
    IN  IF r.exc # NoExc THEN r ELSE [r EXCEPT !.val = MapSeq(r.val, mapper)]

\* ---------------------------------------------------------- company CRUD
CreateCompany(w, company, F) ==
    LET r == _execute_write(
                 w, SqlInsert(w, "company",
                          [name |-> company.name,
                           website |-> company.website,
                           company_location |-> company.company_location]), F)
    IN  IF r.exc # NoExc THEN r ELSE [r EXCEPT !.val = [company EXCEPT !.company_id = r.val]]

ReadCompanyByID(w, company_id, F) ==
    _read_one(w, SelectById(w, "company", company_id), "_company_from_row", F)

ReadAllCompanies(w, F) ==
    _read_many(w, SelectAll(w, "company"), "_company_from_row", F)
\* UpdateCompany as it was before the existence check: rowcount alone decides.
UpdateCompany_RowcountOnly(w, company, F) ==
    IF company.company_id = NoneId
      THEN Outcome(w, "ValueError", NoneObj, <<>>)
      ELSE
        LET u == _execute_update_delete(
                     w, SqlUpdate(w, "company", company.company_id,
                                  [name |-> company.name,
                                   website |-> company.website,
                                   company_location |-> company.company_location]), F.w)
        IN  IF u.exc # NoExc THEN u ELSE [u EXCEPT !.val = (u.val > 0)]


UpdateCompany(w, company, F) ==
    IF company.company_id = NoneId
      THEN Outcome(w, "ValueError", NoneObj, <<>>)
      ELSE
        LET u == _execute_update_delete(
                     w, SqlUpdate(w, "company", company.company_id,
                                  [name |-> company.name,
                                   website |-> company.website,
                                   company_location |-> company.company_location]), F.w)
        IN  IF u.exc # NoExc THEN u
            ELSE IF u.val > 0 THEN [u EXCEPT !.val = TRUE]
            ELSE LET e == _exists(u.w, "company", "company_id", company.company_id, F.r)
                 IN  [e EXCEPT !.trace = u.trace \o e.trace]

DeleteCompany(w, company_id, F) ==
    LET r == _execute_update_delete(w, SqlDelete(w, "company", company_id), F)
    IN  IF r.exc # NoExc THEN r ELSE [r EXCEPT !.val = (r.val > 0)]

\* ---------------------------------------------------------- contact CRUD
\* CreateContact with two parameters of the INSERT in each other's place.
CreateContact_SwappedParams(w, contact, F) ==
    LET r == _execute_write(
                 w, SqlInsert(w, "contact",
                          [company_id |-> contact.company_id,
                           full_name |-> contact.full_name,
                           title |-> contact.email,
                           email |-> contact.title,
                           phone |-> contact.phone,
                           linkedin |-> contact.linkedin]), F)
    IN  IF r.exc # NoExc THEN r ELSE [r EXCEPT !.val = [contact EXCEPT !.contact_id = r.val]]


CreateContact(w, contact, F) ==
    LET r == _execute_write(
                 w, SqlInsert(w, "contact",
                          [company_id |-> contact.company_id,
                           full_name |-> contact.full_name,
                           title |-> contact.title,
                           email |-> contact.email,
                           phone |-> contact.phone,
                           linkedin |-> contact.linkedin]), F)
    IN  IF r.exc # NoExc THEN r ELSE [r EXCEPT !.val = [contact EXCEPT !.contact_id = r.val]]

ReadContactByID(w, contact_id, F) ==
    _read_one(w, SelectById(w, "contact", contact_id), "_contact_from_row", F)

ReadAllContacts(w, F) ==
    _read_many(w, SelectAll(w, "contact"), "_contact_from_row", F)
\* UpdateContact with two parameters of the UPDATE in each other's place.
UpdateContact_SwappedParams(w, contact, F) ==
    IF contact.contact_id = NoneId
      THEN Outcome(w, "ValueError", NoneObj, <<>>)
      ELSE
        LET u == _execute_update_delete(
                     w, SqlUpdate(w, "contact", contact.contact_id,
                                  [company_id |-> contact.company_id,
                                   full_name |-> contact.full_name,
                                   title |-> contact.title,
                                   email |-> contact.phone,
                                   phone |-> contact.email,
                                   linkedin |-> contact.linkedin]), F.w)
        IN  IF u.exc # NoExc THEN u
            ELSE IF u.val > 0 THEN [u EXCEPT !.val = TRUE]
            ELSE LET e == _exists(u.w, "contact", "contact_id", contact.contact_id, F.r)
                 IN  [e EXCEPT !.trace = u.trace \o e.trace]


UpdateContact(w, contact, F) ==
    IF contact.contact_id = NoneId
      THEN Outcome(w, "ValueError", NoneObj, <<>>)
      ELSE
        LET u == _execute_update_delete(
                     w, SqlUpdate(w, "contact", contact.contact_id,
                                  [company_id |-> contact.company_id,
                                   full_name |-> contact.full_name,
                                   title |-> contact.title,
                                   email |-> contact.email,
                                   phone |-> contact.phone,
                                   linkedin |-> contact.linkedin]), F.w)
        IN  IF u.exc # NoExc THEN u
            ELSE IF u.val > 0 THEN [u EXCEPT !.val = TRUE]
            ELSE LET e == _exists(u.w, "contact", "contact_id", contact.contact_id, F.r)
                 IN  [e EXCEPT !.trace = u.trace \o e.trace]

DeleteContact(w, contact_id, F) ==
    LET r == _execute_update_delete(w, SqlDelete(w, "contact", contact_id), F)
    IN  IF r.exc # NoExc THEN r ELSE [r EXCEPT !.val = (r.val > 0)]

\* ---------------------------------------------------------- job_posting CRUD
CreateJobPosting(w, job, F) ==
    LET r == _execute_write(
                 w, SqlInsert(w, "job_posting",
                          [company_id |-> job.company_id,
                           job_title |-> job.job_title,
                           job_location |-> job.job_location,
                           employment_type |-> job.employment_type,
                           job_url |-> job.job_url,
                           salary |-> job.salary,
                           posted_date |-> job.posted_date]), F)
    IN  IF r.exc # NoExc THEN r ELSE [r EXCEPT !.val = [job EXCEPT !.job_id = r.val]]

ReadJobPostingByID(w, job_id, F) ==
    _read_one(w, SelectById(w, "job_posting", job_id), "_job_posting_from_row", F)

ReadAllJobPostings(w, F) ==
    _read_many(w, SelectAll(w, "job_posting"), "_job_posting_from_row", F)
\* UpdateJobPosting without the test of job.job_id.
UpdateJobPosting_NoIdCheck(w, job, F) ==
    LET u == _execute_update_delete(
                 w, SqlUpdate(w, "job_posting", job.job_id,
                              [company_id |-> job.company_id,
                               job_title |-> job.job_title,
                               job_location |-> job.job_location,
                               employment_type |-> job.employment_type,
                               job_url |-> job.job_url,
                               salary |-> job.salary,
                               posted_date |-> job.posted_date]), F.w)
    IN  IF u.exc # NoExc THEN u
        ELSE IF u.val > 0 THEN [u EXCEPT !.val = TRUE]
        ELSE LET e == _exists(u.w, "job_posting", "job_id", job.job_id, F.r)
             IN  [e EXCEPT !.trace = u.trace \o e.trace]


UpdateJobPosting(w, job, F) ==
    IF job.job_id = NoneId
      THEN Outcome(w, "ValueError", NoneObj, <<>>)
      ELSE
        LET u == _execute_update_delete(
                     w, SqlUpdate(w, "job_posting", job.job_id,
                                  [company_id |-> job.company_id,
                                   job_title |-> job.job_title,
                                   job_location |-> job.job_location,
                                   employment_type |-> job.employment_type,
                                   job_url |-> job.job_url,
                                   salary |-> job.salary,
                                   posted_date |-> job.posted_date]), F.w)
        IN  IF u.exc # NoExc THEN u
            ELSE IF u.val > 0 THEN [u EXCEPT !.val = TRUE]
            ELSE LET e == _exists(u.w, "job_posting", "job_id", job.job_id, F.r)
                 IN  [e EXCEPT !.trace = u.trace \o e.trace]

DeleteJobPosting(w, job_id, F) ==
    LET r == _execute_update_delete(w, SqlDelete(w, "job_posting", job_id), F)
    IN  IF r.exc # NoExc THEN r ELSE [r EXCEPT !.val = (r.val > 0)]

\* ---------------------------------------------------------- application CRUD
CreateApplication(w, app, F) ==
    LET r == _execute_write(
                 w, SqlInsert(w, "application",
                          [job_id |-> app.job_id,
                           applied_date |-> app.applied_date,
                           source |-> app.source,
                           priority |-> app.priority,
                           resume |-> app.resume]), F)
    IN  IF r.exc # NoExc THEN r ELSE [r EXCEPT !.val = [app EXCEPT !.application_id = r.val]]

ReadApplicationByID(w, application_id, F) ==
    _read_one(w, SelectById(w, "application", application_id), "_application_from_row", F)

ReadAllApplications(w, F) ==
    _read_many(w, SelectAll(w, "application"), "_application_from_row", F)

UpdateApplication(w, app, F) ==
    IF app.application_id = NoneId
      THEN Outcome(w, "ValueError", NoneObj, <<>>)
      ELSE
        LET u == _execute_update_delete(
                     w, SqlUpdate(w, "application", app.application_id,
                                  [job_id |-> app.job_id,
                                   applied_date |-> app.applied_date,
                                   source |-> app.source,
                                   priority |-> app.priority,
                                   resume |-> app.resume]), F.w)
        IN  IF u.exc # NoExc THEN u
            ELSE IF u.val > 0 THEN [u EXCEPT !.val = TRUE]
            ELSE LET e == _exists(u.w, "application", "application_id", app.application_id, F.r)
                 IN  [e EXCEPT !.trace = u.trace \o e.trace]
\* DeleteApplication returning rc >= 0 in place of rc > 0.
DeleteApplication_RcNotNegative(w, application_id, F) ==
    LET r == _execute_update_delete(w, SqlDelete(w, "application", application_id), F)
    IN  IF r.exc # NoExc THEN r ELSE [r EXCEPT !.val = (r.val >= 0)]


DeleteApplication(w, application_id, F) ==
    LET r == _execute_update_delete(w, SqlDelete(w, "application", application_id), F)
    IN  IF r.exc # NoExc THEN r ELSE [r EXCEPT !.val = (r.val > 0)]

\* ----------------------------------------------- application_status CRUD
\* CreateApplicationStatus without the test of the contact's identifier: a
\* contact that has none is stored as if no contact had been given.
CreateApplicationStatus_NoContactCheck(w, status, F) ==
    IF status.application.application_id = NoneId
      THEN Outcome(w, "ValueError", NoneObj, <<>>)
      ELSE
        LET contact_id == IF status.contact = NoneObj THEN NoneId
                          ELSE status.contact.contact_id
            r == _execute_write(
                     w, SqlInsert(w, "application_status",
                              [application_id |-> status.application.application_id,
                               contact_id |-> contact_id,
                               status |-> StatusValue(status.status)]), F)
        IN  IF r.exc # NoExc THEN r
            ELSE [r EXCEPT !.val = [status EXCEPT !.status_id = r.val]]

\* CreateApplicationStatus: both identifier checks come before the INSERT.
CreateApplicationStatus(w, status, F) ==
    IF status.application.application_id = NoneId
      THEN Outcome(w, "ValueError", NoneObj, <<>>)
      ELSE
        LET contact_id == IF status.contact = NoneObj THEN NoneId
                          ELSE status.contact.contact_id
        IN  IF status.contact # NoneObj /\ status.contact.contact_id = NoneId
              THEN Outcome(w, "ValueError", NoneObj, <<>>)
              ELSE
                LET r == _execute_write(
                             w, SqlInsert(w, "application_status",
                                      [application_id |-> status.application.application_id,
                                       contact_id |-> contact_id,
                                       status |-> StatusValue(status.status)]), F)
                IN  IF r.exc # NoExc THEN r
                    ELSE [r EXCEPT !.val = [status EXCEPT !.status_id = r.val]]

\* fetchone, then the join-row mapper on the row if there is one.
ReadApplicationStatusByID(w, status_id, F) ==
    LET r == _execute(w, _STATUS_JOIN_SELECT(w.work,
                             {status_id} \cap DOMAIN w.work.application_status), "one", F)
    IN  IF r.exc # NoExc \/ r.val = NoneObj THEN r
        ELSE [r EXCEPT !.val = _application_status_from_join_row(r.val)]

ReadAllApplicationStatuses(w, F) ==
    LET r == _execute(w, _STATUS_JOIN_SELECT(w.work, DOMAIN w.work.application_status),
                      "all", F)
    IN  IF r.exc # NoExc THEN r
        ELSE [r EXCEPT !.val = MapSeq(r.val, "_application_status_from_join_row")]

UpdateApplicationStatus(w, status, F) ==
    IF status.status_id = NoneId
      THEN Outcome(w, "ValueError", NoneObj, <<>>)
      ELSE IF status.application.application_id = NoneId
        THEN Outcome(w, "ValueError", NoneObj, <<>>)
        ELSE
          LET contact_id == IF status.contact = NoneObj THEN NoneId
                            ELSE status.contact.contact_id
          IN  IF status.contact # NoneObj /\ status.contact.contact_id = NoneId
                THEN Outcome(w, "ValueError", NoneObj, <<>>)
                ELSE
                  LET u == _execute_update_delete(
                               w, SqlUpdate(w, "application_status", status.status_id,
                                        [application_id |-> status.application.application_id,
                                         contact_id |-> contact_id,
                                         status |-> StatusValue(status.status)]), F.w)
                  IN  IF u.exc # NoExc THEN u
                      ELSE IF u.val > 0 THEN [u EXCEPT !.val = TRUE]
                      ELSE LET e == _exists(u.w, "application_status", "status_id",
                                            status.status_id, F.r)
                           IN  [e EXCEPT !.trace = u.trace \o e.trace]

DeleteApplicationStatus(w, status_id, F) ==
    LET r == _execute_update_delete(w, SqlDelete(w, "application_status", status_id), F)
    IN  IF r.exc # NoExc THEN r ELSE [r EXCEPT !.val = (r.val > 0)]

\* ------------------------------------------------------ callers' inputs
\* ------------------------------------------------ connection lifecycle
\* close: self._conn.close() when is_connected() says the connection is
\* open; the server discards what the connection left uncommitted.
close(w) ==
    IF w.connected
      THEN Outcome([w EXCEPT !.connected = FALSE, !.work = w.db, !.inTxn = FALSE],
                   NoExc, NoneObj, <<"is_connected", "conn.close">>)
      ELSE Outcome(w, NoExc, NoneObj, <<"is_connected">>)

\* __enter__: returns self.
__enter__(w) ==
    Outcome(w, NoExc, "self", <<>>)

\* __exit__ closing only when the block ended without an error.
__exit___OnSuccessOnly(w, exc_type) ==
    IF exc_type = NoExc THEN close(w) ELSE Outcome(w, NoExc, NoneObj, <<>>)

\* __exit__(exc_type, exc, tb): self.close(), whatever ended the block; it
\* returns None, so an error raised in the block goes on to the caller.
__exit__(w, exc_type) ==
    close(w)

\* The ApplicationStatus objects the callers pass: the embedded company,
\* job, application and contact are whatever objects the caller holds.  The
\* identifiers are absent, the first or the last of the range.
Statuses ==
    { [company |-> c, contact |-> k, job |-> j, application |-> a,
       status_id |-> i, status |-> st] :
      c \in {x \in Companies : x.company_id = 2},
      k \in {NoneObj} \cup {x \in Contacts : /\ x.company_id = 2 /\ x.full_name = "Ann"
                                              /\ x.contact_id \in {NoneId, 1}},
      j \in {x \in JobPostings : x.job_id = 1 /\ x.company_id = 2 /\ x.job_title = "Engineer"},
      a \in {x \in Applications : /\ x.job_id = 1 /\ x.source = "referral"
                                  /\ x.application_id \in {NoneId, 1, MaxId}},
      i \in {NoneId, 1, MaxId}, st \in StatusVals }

\* The driver calls that raise during one helper call.  A set stands for
\* every set that behaves like it: nothing is called after cursor() raises,
\* commit is not reached when execute raises, and the write helpers call
\* rollback only after a failure.
WriteFaults ==
    { F \in SUBSET {"cursor", "execute", "commit", "rollback", "close"} :
        /\ "cursor" \in F => F = {"cursor"}
        /\ ~("execute" \in F /\ "commit" \in F)
        /\ "rollback" \in F => ("execute" \in F \/ "commit" \in F) }

ReadFaults ==
    { F \in SUBSET {"cursor", "execute", "fetch", "close", "rollback"} :
        /\ "cursor" \in F => F = {"cursor"}
        /\ ~("execute" \in F /\ "fetch" \in F)
        /\ ~("close" \in F /\ "rollback" \in F) }

\* An update runs the write helper and then, when no row changed, _exists.
UpdateFaults ==
    { [w |-> F, r |-> {}] : F \in WriteFaults } \cup { [w |-> {}, r |-> F] : F \in ReadFaults }

\* ------------------------------------------------------------ the state
\* The database the DataProvider connects to: empty, or seeded with the rows
\* the smoke test reads (a company, contact 1, job 1, application 1,
\* status 1), here two companies with the job and the contact at the second.
SeedDb ==
    [company |-> (1 :> [company_id |-> 1, name |-> "Acme", website |-> "https://acme.test",
                        company_location |-> "Remote"])
                 @@ (2 :> [company_id |-> 2, name |-> "Globex", website |-> NoneStr,
                           company_location |-> "Austin, TX"]),
     contact |-> (1 :> [contact_id |-> 1, company_id |-> 2, full_name |-> "Ann",
                        title |-> "CTO", email |-> "ann@acme.test", phone |-> "555-1",
                        linkedin |-> "in/ann"]),
     job_posting |-> (1 :> [job_id |-> 1, company_id |-> 2, job_title |-> "Engineer",
                            job_location |-> "Remote", employment_type |-> "FULL",
                            job_url |-> "https://acme.test/j", salary |-> "100000.00",
                            posted_date |-> "2026-01-01"]),
     application |-> (1 :> [application_id |-> 1, job_id |-> 1,
                            applied_date |-> "2026-01-02", source |-> "referral",
                            priority |-> "1", resume |-> "cv.pdf"]),
     application_status |-> (1 :> [status_id |-> 1, application_id |-> 1,
                                   contact_id |-> NoneId, status |-> "SCREEN"])]

NextIds(t) ==
    [company |-> Cardinality(DOMAIN t.company) + 1,
     contact |-> Cardinality(DOMAIN t.contact) + 1,
     job_posting |-> Cardinality(DOMAIN t.job_posting) + 1,
     application |-> Cardinality(DOMAIN t.application) + 1,
     application_status |-> Cardinality(DOMAIN t.application_status) + 1]

NoCall ==
    [op |-> "", table |-> "", arg |-> NoneObj, exc |-> NoExc, val |-> NoneObj,
     trace |-> <<>>, pre |-> NoneObj]

\* __init__: the connection is open, autocommit is off, no transaction.
Init ==
    /\ db \in {EmptyDb, SeedDb}
    /\ work = db
    /\ inTxn = FALSE
    /\ autoinc = NextIds(db)
    /\ on_delete \in {"RESTRICT", "CASCADE"}
    /\ connected = TRUE
    /\ scope = "outside"
    /\ pending = NoneObj
    /\ pc = "ready"
    /\ last = NoCall
    /\ nwrites = 0

World ==
    [db |-> db, work |-> work, inTxn |-> inTxn, autoinc |-> autoinc,
     on_delete |-> on_delete, connected |-> connected]

\* The call op(arg) on `table` ends with outcome r: the caller holds what it
\* returned or raised.
Returns(op, table, arg, r, isWrite) ==
    /\ pc = "ready"
    /\ db' = r.w.db
    /\ work' = r.w.work
    /\ inTxn' = r.w.inTxn
    /\ autoinc' = r.w.autoinc
    /\ connected' = r.w.connected
    /\ pc' = "returned"
    /\ last' = [op |-> op, table |-> table, arg |-> arg, exc |-> r.exc, val |-> r.val,
                trace |-> r.trace, pre |-> World]
    /\ nwrites' = IF isWrite THEN nwrites + 1 ELSE nwrites
    /\ UNCHANGED <<on_delete, scope, pending>>

\* The caller takes the result and goes on to its next call.
Continue ==
    /\ pc = "returned"
    /\ pc' = "ready"
    /\ last' = NoCall
    /\ UNCHANGED <<db, work, inTxn, autoinc, on_delete, connected, scope, pending, nwrites>>

CanWrite ==
    nwrites < MaxWrites

Do_CreateCompany ==
    /\ CanWrite /\ autoinc.company <= MaxId
    /\ \E v \in {x \in Companies : x.company_id = NoneId}, F \in WriteFaults :
          Returns("Create", "company", v, CreateCompany(World, v, F), TRUE)

Do_ReadCompanyByID ==
    /\ pc = "ready"
    /\ \E id \in Ids, F \in ReadFaults :
          Returns("ReadByID", "company", id, ReadCompanyByID(World, id, F), FALSE)

Do_ReadAllCompanies ==
    /\ pc = "ready"
    /\ \E F \in ReadFaults :
          Returns("ReadAll", "company", NoneObj, ReadAllCompanies(World, F), FALSE)

Do_UpdateCompany ==
    /\ CanWrite
    /\ \E v \in Companies, F \in UpdateFaults :
          Returns("Update", "company", v, UpdateCompany(World, v, F), TRUE)

Do_DeleteCompany ==
    /\ CanWrite
    /\ \E id \in Ids, F \in WriteFaults :
          Returns("Delete", "company", id, DeleteCompany(World, id, F), TRUE)

Do_CreateContact ==
    /\ CanWrite /\ autoinc.contact <= MaxId
    /\ \E v \in {x \in Contacts : x.contact_id = NoneId}, F \in WriteFaults :
          Returns("Create", "contact", v, CreateContact(World, v, F), TRUE)

Do_ReadContactByID ==
    /\ pc = "ready"
    /\ \E id \in Ids, F \in ReadFaults :
          Returns("ReadByID", "contact", id, ReadContactByID(World, id, F), FALSE)

Do_ReadAllContacts ==
    /\ pc = "ready"
    /\ \E F \in ReadFaults :
          Returns("ReadAll", "contact", NoneObj, ReadAllContacts(World, F), FALSE)

Do_UpdateContact ==
    /\ CanWrite
    /\ \E v \in Contacts, F \in UpdateFaults :
          Returns("Update", "contact", v, UpdateContact(World, v, F), TRUE)

Do_DeleteContact ==
    /\ CanWrite
    /\ \E id \in Ids, F \in WriteFaults :
          Returns("Delete", "contact", id, DeleteContact(World, id, F), TRUE)

Do_CreateJobPosting ==
    /\ CanWrite /\ autoinc.job_posting <= MaxId
    /\ \E v \in {x \in JobPostings : x.job_id = NoneId}, F \in WriteFaults :
          Returns("Create", "job_posting", v, CreateJobPosting(World, v, F), TRUE)

Do_ReadJobPostingByID ==
    /\ pc = "ready"
    /\ \E id \in Ids, F \in ReadFaults :
          Returns("ReadByID", "job_posting", id, ReadJobPostingByID(World, id, F), FALSE)

Do_ReadAllJobPostings ==
    /\ pc = "ready"
    /\ \E F \in ReadFaults :
          Returns("ReadAll", "job_posting", NoneObj, ReadAllJobPostings(World, F), FALSE)

Do_UpdateJobPosting ==
    /\ CanWrite
    /\ \E v \in JobPostings, F \in UpdateFaults :
          Returns("Update", "job_posting", v, UpdateJobPosting(World, v, F), TRUE)

Do_DeleteJobPosting ==
    /\ CanWrite
    /\ \E id \in Ids, F \in WriteFaults :
          Returns("Delete", "job_posting", id, DeleteJobPosting(World, id, F), TRUE)

Do_CreateApplication ==
    /\ CanWrite /\ autoinc.application <= MaxId
    /\ \E v \in {x \in Applications : x.application_id = NoneId}, F \in WriteFaults :
          Returns("Create", "application", v, CreateApplication(World, v, F), TRUE)

Do_ReadApplicationByID ==
    /\ pc = "ready"
    /\ \E id \in Ids, F \in ReadFaults :
          Returns("ReadByID", "application", id, ReadApplicationByID(World, id, F), FALSE)

Do_ReadAllApplications ==
    /\ pc = "ready"
    /\ \E F \in ReadFaults :
          Returns("ReadAll", "application", NoneObj, ReadAllApplications(World, F), FALSE)

Do_UpdateApplication ==
    /\ CanWrite
    /\ \E v \in Applications, F \in UpdateFaults :
          Returns("Update", "application", v, UpdateApplication(World, v, F), TRUE)

Do_DeleteApplication ==
    /\ CanWrite
    /\ \E id \in Ids, F \in WriteFaults :
          Returns("Delete", "application", id, DeleteApplication(World, id, F), TRUE)

Do_CreateApplicationStatus ==
    /\ CanWrite /\ autoinc.application_status <= MaxId
    /\ \E v \in {x \in Statuses : x.status_id = NoneId}, F \in WriteFaults :
          Returns("Create", "application_status", v, CreateApplicationStatus(World, v, F), TRUE)

Do_ReadApplicationStatusByID ==
    /\ pc = "ready"
    /\ \E id \in Ids, F \in ReadFaults :
          Returns("ReadByID", "application_status", id, ReadApplicationStatusByID(World, id, F), FALSE)

Do_ReadAllApplicationStatuses ==
    /\ pc = "ready"
    /\ \E F \in ReadFaults :
          Returns("ReadAll", "application_status", NoneObj, ReadAllApplicationStatuses(World, F), FALSE)

Do_UpdateApplicationStatus ==
    /\ CanWrite
    /\ \E v \in Statuses, F \in UpdateFaults :
          Returns("Update", "application_status", v, UpdateApplicationStatus(World, v, F), TRUE)

Do_DeleteApplicationStatus ==
    /\ CanWrite
    /\ \E id \in Ids, F \in WriteFaults :
          Returns("Delete", "application_status", id, DeleteApplicationStatus(World, id, F), TRUE)

\* dp.close(), called by the caller between two calls.
Do_close ==
    /\ scope \in {"outside", "inside", "exited"}
    /\ Returns("close", "", NoneObj, close(World), FALSE)

\* with DataProvider(...) as dp: the block is entered right after
\* construction.
Do___enter__ ==
    /\ pc = "ready" /\ scope = "outside" /\ connected /\ nwrites = 0 /\ ~inTxn
    /\ scope' = "inside"
    /\ pc' = "returned"
    /\ last' = [op |-> "__enter__", table |-> "", arg |-> NoneObj,
                exc |-> __enter__(World).exc, val |-> __enter__(World).val,
                trace |-> __enter__(World).trace, pre |-> World]
    /\ UNCHANGED <<db, work, inTxn, autoinc, on_delete, connected, pending, nwrites>>

\* The with-block ends: normally, between two calls, or by the error the
\* last call raised, which nothing in the block caught.
Do___exit__ ==
    /\ scope = "inside"
    /\ pc = "ready" \/ (pc = "returned" /\ last.exc # NoExc)
    /\ LET exc_type == IF pc = "returned" THEN last.exc ELSE NoExc
           r == __exit__(World, exc_type)
       IN  /\ db' = r.w.db
           /\ work' = r.w.work
           /\ inTxn' = r.w.inTxn
           /\ autoinc' = r.w.autoinc
           /\ connected' = r.w.connected
           /\ last' = [op |-> "__exit__", table |-> "", arg |-> exc_type, exc |-> r.exc,
                       val |-> r.val, trace |-> r.trace, pre |-> World]
    /\ scope' = "exited"
    /\ pc' = "returned"
    /\ UNCHANGED <<on_delete, pending, nwrites>>

Next ==
    \/ Do_CreateCompany
    \/ Do_ReadCompanyByID
    \/ Do_ReadAllCompanies
    \/ Do_UpdateCompany
    \/ Do_DeleteCompany
    \/ Do_CreateContact
    \/ Do_ReadContactByID
    \/ Do_ReadAllContacts
    \/ Do_UpdateContact
    \/ Do_DeleteContact
    \/ Do_CreateJobPosting
    \/ Do_ReadJobPostingByID
    \/ Do_ReadAllJobPostings
    \/ Do_UpdateJobPosting
    \/ Do_DeleteJobPosting
    \/ Do_CreateApplication
    \/ Do_ReadApplicationByID
    \/ Do_ReadAllApplications
    \/ Do_UpdateApplication
    \/ Do_DeleteApplication
    \/ Do_CreateApplicationStatus
    \/ Do_ReadApplicationStatusByID
    \/ Do_ReadAllApplicationStatuses
    \/ Do_UpdateApplicationStatus
    \/ Do_DeleteApplicationStatus
    \/ Do_close
    \/ Continue

Spec ==
    Init /\ [][Next]_vars

\* ------------------------------------- several instances, one database
\* The objects of each entity, and its CreateX, UpdateX and DeleteX.
Objects(table) ==
    CASE table = "company" -> Companies
      [] table = "contact" -> Contacts
      [] table = "job_posting" -> JobPostings
      [] table = "application" -> Applications
      [] table = "application_status" -> Statuses

Create(w, table, v, F) ==
    CASE table = "company" -> CreateCompany(w, v, F)
      [] table = "contact" -> CreateContact(w, v, F)
      [] table = "job_posting" -> CreateJobPosting(w, v, F)
      [] table = "application" -> CreateApplication(w, v, F)
      [] table = "application_status" -> CreateApplicationStatus(w, v, F)

Update(w, table, v, F) ==
    CASE table = "company" -> UpdateCompany(w, v, F)
      [] table = "contact" -> UpdateContact(w, v, F)
      [] table = "job_posting" -> UpdateJobPosting(w, v, F)
      [] table = "application" -> UpdateApplication(w, v, F)
      [] table = "application_status" -> UpdateApplicationStatus(w, v, F)

Delete(w, table, id, F) ==
    CASE table = "company" -> DeleteCompany(w, id, F)
      [] table = "contact" -> DeleteContact(w, id, F)
      [] table = "job_posting" -> DeleteJobPosting(w, id, F)
      [] table = "application" -> DeleteApplication(w, id, F)
      [] table = "application_status" -> DeleteApplicationStatus(w, id, F)

\* UpdateX(v) as far as the cursor() of its existence check: the outcome of
\* the call when it ends before (validation error, refused statement,
\* rc > 0), else the world after the committed UPDATE.
UpdateUpToExistsCheck(w, table, v) ==
    Update(w, table, v, [w |-> {}, r |-> {"cursor"}])

AtExistsCheck(r) ==
    r.exc = "cursor" /\ r.trace = <<"cursor", "execute", "commit", "close", "cursor!">>

\* The connection of another DataProvider on the same database: it has no
\* transaction open between its calls and sees what is committed.
OtherWorld ==
    [db |-> db, work |-> db, inTxn |-> FALSE, autoinc |-> autoinc,
     on_delete |-> on_delete, connected |-> TRUE]

\* What another instance commits is seen by this instance's next statement
\* (each of its statements runs in a transaction of its own).
SeenAfter(db2) ==
    IF inTxn THEN work ELSE db2

\* The writes of all instances together: one more than MaxWrites, for the
\* update of this instance and a write of another.
CanWriteConcurrent ==
    nwrites < MaxWrites + 1

\* UpdateX(v) of this instance: validation, UPDATE, commit, and the result
\* when rc > 0 decides it; otherwise the existence check is still to run.
Update_Statement ==
    /\ pc = "ready" /\ CanWriteConcurrent
    /\ \E table \in Tables : \E v \in Objects(table) :
          LET r == UpdateUpToExistsCheck(World, table, v)
          IN  IF AtExistsCheck(r)
                THEN /\ db' = r.w.db /\ work' = r.w.work /\ inTxn' = r.w.inTxn
                     /\ autoinc' = r.w.autoinc
                     /\ pending' = [table |-> table, arg |-> v, pre |-> World,
                                    trace |-> SubSeq(r.trace, 1, 4)]
                     /\ pc' = "exists_check"
                     /\ nwrites' = nwrites + 1
                     /\ UNCHANGED <<on_delete, connected, scope, last>>
                ELSE Returns("Update", table, v, r, TRUE)

\* return self._exists(table, pk_col, id): the second statement of UpdateX.
Update_ExistsCheck ==
    /\ pc = "exists_check"
    /\ LET e == _exists(World, pending.table, PkCol(pending.table),
                        pending.arg[PkCol(pending.table)], {})
       IN  /\ db' = e.w.db /\ work' = e.w.work /\ inTxn' = e.w.inTxn
           /\ autoinc' = e.w.autoinc
           /\ last' = [op |-> "Update", table |-> pending.table, arg |-> pending.arg,
                       exc |-> e.exc, val |-> e.val,
                       trace |-> pending.trace \o e.trace, pre |-> pending.pre]
    /\ pending' = NoneObj
    /\ pc' = "returned"
    /\ UNCHANGED <<on_delete, connected, scope, nwrites>>

\* Another instance's CreateX(v), from its call to its return.
Other_Create ==
    /\ pc \in {"ready", "exists_check"} /\ CanWriteConcurrent
    /\ \E table \in Tables : \E v \in {x \in Objects(table) : x[PkCol(table)] = NoneId} :
          LET r == Create(OtherWorld, table, v, {})
          IN  /\ autoinc[table] <= MaxId
              /\ r.exc = NoExc
              /\ db' = r.w.db
              /\ autoinc' = r.w.autoinc
              /\ work' = SeenAfter(r.w.db)
    /\ nwrites' = nwrites + 1
    /\ UNCHANGED <<inTxn, on_delete, connected, scope, pending, pc, last>>

\* Another instance's DeleteX(id) of a row that exists.
Other_Delete ==
    /\ pc \in {"ready", "exists_check"} /\ CanWriteConcurrent
    /\ \E table \in Tables : \E id \in Ids :
          LET r == Delete(OtherWorld, table, id, {})
          IN  /\ r.exc = NoExc /\ r.val = TRUE
              /\ db' = r.w.db
              /\ autoinc' = r.w.autoinc
              /\ work' = SeenAfter(r.w.db)
    /\ nwrites' = nwrites + 1
    /\ UNCHANGED <<inTxn, on_delete, connected, scope, pending, pc, last>>

NextConcurrent ==
    \/ Update_Statement
    \/ Update_ExistsCheck
    \/ Other_Create
    \/ Other_Delete
    \/ Continue

SpecConcurrent ==
    Init /\ [][NextConcurrent]_vars

\* The DataProvider used through a with-statement.
NextScope ==
    \/ Next
    \/ Do___enter__
    \/ Do___exit__

SpecScope ==
    Init /\ [][NextScope]_vars

\* ====================================================================
\* Properties
\* ====================================================================
WriteOps == {"Create", "Update", "Delete"}

ReadOps == {"ReadByID", "ReadAll"}

Returned(ops) ==
    pc = "returned" /\ last.op \in ops

\* The identifier an object carries, per table.
IdOf(table, obj) ==
    obj[PkCol(table)]

\* What ReadXByID(id) returns on the world w when no driver call raises.
ReadBack(w, table, id) ==
    CASE table = "company" -> ReadCompanyByID(w, id, {}).val
      [] table = "contact" -> ReadContactByID(w, id, {}).val
      [] table = "job_posting" -> ReadJobPostingByID(w, id, {}).val
      [] table = "application" -> ReadApplicationByID(w, id, {}).val
      [] table = "application_status" -> ReadApplicationStatusByID(w, id, {}).val

\* The write helper's statement, or its commit, raised.
StatementFailed ==
    Len(last.trace) >= 2 /\ last.trace[2] = "execute!"

CommitFailed ==
    Len(last.trace) >= 3 /\ last.trace[3] = "commit!"

WriteCommitted ==
    Len(last.trace) >= 3 /\ last.trace[3] = "commit"

\* The update went on to the existence check (_exists) after its UPDATE.
ExistsCheckRan ==
    Len(last.trace) > 4 /\ last.trace[5] = "cursor"

\* The objects embedded in the status v are the ones the store holds for
\* v's application, that application's job, that job's company and v's
\* contact.
EmbedsStored(w, v) ==
    /\ v.application = ReadBack(w, "application", v.application.application_id)
    /\ v.job = ReadBack(w, "job_posting", v.application.job_id)
    /\ v.company = ReadBack(w, "company", v.job.company_id)
    /\ v.contact = NoneObj \/ v.contact = ReadBack(w, "contact", v.contact.contact_id)

\* What a read of the status v's row must return whatever v embeds.
StatusRowReadBack(r, v) ==
    /\ r # NoneObj
    /\ r.status_id = v.status_id
    /\ r.status = v.status
    /\ r.application.application_id = v.application.application_id
    /\ (r.contact = NoneObj) = (v.contact = NoneObj)
    /\ v.contact # NoneObj => r.contact.contact_id = v.contact.contact_id

\* ------------------------------------------------------------------ C1
\* C1: an UpdateX(v) that returns, returns true exactly when a row with v's
\* identifier exists in X's table (changed by the UPDATE, or left as it was
\* because it already held v's values), and false exactly when none does.
C1_UpdateTrueIffRowExists ==
    (Returned({"Update"}) /\ last.exc = NoExc) =>
        /\ last.val \in BOOLEAN
        /\ last.val = (IdOf(last.table, last.arg) \in DOMAIN last.pre.work[last.table])
        /\ last.val = (IdOf(last.table, last.arg) \in DOMAIN work[last.table])

\* An update of a row that already held the values returned true after the
\* existence check.
C1_Witness ==
    /\ Returned({"Update"}) /\ last.exc = NoExc /\ last.val = TRUE
    /\ ExistsCheckRan
    /\ work[last.table] = last.pre.work[last.table]

\* ------------------------------------------------------------------ C2
\* C2: after any read (ReadXByID, ReadAllX, and the existence check inside
\* UpdateX) finishes, returning or raising, the connection has no open
\* transaction.
C2_NoReadLeavesTransactionOpen ==
    /\ Returned(ReadOps) => ~inTxn
    /\ (Returned({"Update"}) /\ ExistsCheckRan) => ~inTxn

AfterFailure ==
    IF StatementFailed THEN last.trace[3] ELSE last.trace[4]

C4_ReadBackEqualsCreated ==
    (Returned({"Create"}) /\ last.exc = NoExc) =>
        /\ last.val = [last.arg EXCEPT ![PkCol(last.table)] = IdOf(last.table, last.val)]
        /\ IdOf(last.table, last.val) # NoneId
        /\ ReadBack(World, last.table, IdOf(last.table, last.val)) = last.val

\* C4 as amended: for Company, Contact, JobPosting and Application the read
\* returns v with the new identifier.  For ApplicationStatus the read returns
\* the new identifier, v's status, v's application identifier and v's contact
\* identifier (absent when v has no contact), with the company, job,
\* application and contact the store holds; it equals v with the new
\* identifier exactly when v embeds those stored objects.
C4_ReadBackOfCreated ==
    (Returned({"Create"}) /\ last.exc = NoExc) =>
        LET r == ReadBack(World, last.table, IdOf(last.table, last.val))
        IN  /\ last.val = [last.arg EXCEPT ![PkCol(last.table)] = IdOf(last.table, last.val)]
            /\ IdOf(last.table, last.val) # NoneId
            /\ last.table # "application_status" => r = last.val
            /\ last.table = "application_status" =>
                  /\ StatusRowReadBack(r, last.val)
                  /\ EmbedsStored(World, r)
                  /\ (r = last.val) = EmbedsStored(World, last.val)

\* A status was created from the stored objects and reads back equal.
C4_Witness ==
    /\ Returned({"Create"}) /\ last.exc = NoExc
    /\ last.table = "application_status"
    /\ last.val.contact # NoneObj
    /\ ReadBack(World, last.table, last.val.status_id) = last.val

\* ------------------------------------------------------------------ C5
\* C5: a DeleteX(id) that returns, returns false when no row has the
\* identifier, and then the tables are as they were; it returns true when a
\* row has it, and then that row alone is gone from X's table and
\* ReadXByID(id) returns absent.
C5_DeleteReturnsWhetherRowExisted ==
    (Returned({"Delete"}) /\ last.exc = NoExc) =>
        /\ last.val \in BOOLEAN
        /\ last.val = (last.arg \in DOMAIN last.pre.work[last.table])
        /\ last.val = FALSE =>
              /\ work = last.pre.work
              /\ last.pre.work = last.pre.db => db = last.pre.db
        /\ last.val = TRUE =>
              /\ DOMAIN work[last.table] = DOMAIN last.pre.work[last.table] \ {last.arg}
              /\ \A i \in DOMAIN work[last.table] :
                    work[last.table][i] = last.pre.work[last.table][i]
              /\ db = work
              /\ ReadBack(World, last.table, last.arg) = NoneObj

\* A delete of an existing row returned true.
C5_Witness ==
    /\ Returned({"Delete"}) /\ last.exc = NoExc /\ last.val = TRUE
    /\ last.arg \in DOMAIN last.pre.db[last.table]
    /\ last.arg \notin DOMAIN db[last.table]

\* ------------------------------------------------------------------ C6
\* C6 as claimed: after UpdateX(v) returns true, ReadXByID(v.id) returns a
\* value equal to v in every field, for all five entities.
C6_ReadBackEqualsUpdated ==
    (Returned({"Update"}) /\ last.exc = NoExc /\ last.val = TRUE) =>
        ReadBack(World, last.table, IdOf(last.table, last.arg)) = last.arg

\* C6 as amended: for Company, Contact, JobPosting and Application the read
\* returns v.  For ApplicationStatus the read returns v's identifier, status,
\* application identifier and contact identifier (absent when v has no
\* contact), with the company, job, application and contact the store holds;
\* it equals v exactly when v embeds those stored objects.
C6_ReadBackOfUpdated ==
    (Returned({"Update"}) /\ last.exc = NoExc /\ last.val = TRUE) =>
        LET r == ReadBack(World, last.table, IdOf(last.table, last.arg))
        IN  /\ last.table # "application_status" => r = last.arg
            /\ last.table = "application_status" =>
                  /\ StatusRowReadBack(r, last.arg)
                  /\ EmbedsStored(World, r)
                  /\ (r = last.arg) = EmbedsStored(World, last.arg)

\* An update changed a contact row and the row reads back as the new value.
C6_Witness ==
    /\ Returned({"Update"}) /\ last.exc = NoExc /\ last.val = TRUE
    /\ last.table = "contact"
    /\ work.contact # last.pre.work.contact
    /\ ReadBack(World, "contact", last.arg.contact_id) = last.arg

\* The ApplicationStatus objects the last read returned.
StatusesRead ==
    IF last.op = "ReadByID"
      THEN (IF last.val = NoneObj THEN {} ELSE {last.val})
      ELSE {last.val[i] : i \in 1..Len(last.val)}

StatusReadReturned ==
    Returned(ReadOps) /\ last.table = "application_status" /\ last.exc = NoExc

\* ------------------------------------------------------------------ C7
\* C7: ReadApplicationStatusByID on a status row whose contact_id is null
\* returns a status whose contact is absent; on a row whose contact_id is
\* not null it returns the Contact of the contact row with that identifier.
C7_ContactAbsentIffNull ==
    (StatusReadReturned /\ last.op = "ReadByID") =>
        LET t == last.pre.work
        IN  IF last.arg \notin DOMAIN t.application_status
              THEN last.val = NoneObj
              ELSE LET s == t.application_status[last.arg]
                   IN  /\ last.val # NoneObj
                       /\ last.val.status_id = last.arg
                       /\ s.contact_id = NoneId => last.val.contact = NoneObj
                       /\ s.contact_id # NoneId =>
                             last.val.contact = _contact_from_row(t.contact[s.contact_id])

\* A status row with a contact was read.
C7_Witness ==
    /\ StatusReadReturned /\ last.op = "ReadByID"
    /\ last.val # NoneObj
    /\ last.val.contact # NoneObj
    /\ last.val.contact.contact_id =
           last.pre.work.application_status[last.arg].contact_id

\* ------------------------------------------------------------------ C8
\* C8: every ApplicationStatus a read returns embeds the Application its row
\* references, that application's JobPosting and that job's Company: the
\* identifiers chain, and each embedded object is what ReadXByID returns in
\* the store state the read saw.
C8_EmbeddedChain ==
    StatusReadReturned =>
        \A r \in StatusesRead :
            LET s == last.pre.work.application_status[r.status_id]
            IN  /\ r.application.application_id = s.application_id
                /\ r.application.job_id = r.job.job_id
                /\ r.job.company_id = r.company.company_id
                /\ r.application = ReadBack(last.pre, "application", s.application_id)
                /\ r.job = ReadBack(last.pre, "job_posting", r.application.job_id)
                /\ r.company = ReadBack(last.pre, "company", r.job.company_id)

\* A status was read whose job is at a company with another identifier than
\* the job's.
C8_Witness ==
    /\ StatusReadReturned
    /\ \E r \in StatusesRead : r.job.company_id # r.job.job_id /\ r.company.name = "Globex"

\* ------------------------------------------------------------------ C9
\* C9: a ReadAllX that returns, returns the rows of X's table, each once, in
\* strictly ascending identifier order.
C9_ReadAllAscending ==
    (Returned({"ReadAll"}) /\ last.exc = NoExc) =>
        LET n == Len(last.val)
            tab == last.pre.work[last.table]
        IN  /\ n = Cardinality(DOMAIN tab)
            /\ {IdOf(last.table, last.val[i]) : i \in 1..n} = DOMAIN tab
            /\ \A i \in 1..n, j \in 1..n :
                  i < j => IdOf(last.table, last.val[i]) < IdOf(last.table, last.val[j])
            /\ \A i \in 1..n :
                  last.val[i] = ReadBack(last.pre, last.table, IdOf(last.table, last.val[i]))

\* A ReadAll returned two statuses.
C9_Witness ==
    /\ Returned({"ReadAll"}) /\ last.exc = NoExc
    /\ last.table = "application_status"
    /\ Len(last.val) >= 2

\* ----------------------------------------------------------------- C10
\* C10: UpdateX of a value whose identifier is absent raises the validation
\* error with no driver call made (no statement, commit or rollback) and the
\* store and the transaction as they were.
C10_UpdateWithoutIdRaisesFirst ==
    (Returned({"Update"}) /\ IdOf(last.table, last.arg) = NoneId) =>
        /\ last.exc = "ValueError"
        /\ last.trace = <<>>
        /\ db = last.pre.db /\ work = last.pre.work /\ inTxn = last.pre.inTxn
        /\ autoinc = last.pre.autoinc

\* An update without identifier was refused while a row of the table exists.
C10_Witness ==
    /\ Returned({"Update"}) /\ IdOf(last.table, last.arg) = NoneId
    /\ last.exc = "ValueError"
    /\ last.table = "job_posting"
    /\ DOMAIN db.job_posting # {}

\* ----------------------------------------------------------------- C11
\* The status handed to CreateApplicationStatus lacks an identifier it needs:
\* its application has none, or it has a contact and the contact has none.
LacksIdentifier(v) ==
    \/ v.application.application_id = NoneId
    \/ v.contact # NoneObj /\ v.contact.contact_id = NoneId

\* C11: CreateApplicationStatus of a status whose application has no
\* identifier, or whose contact is given without identifier, raises the
\* validation error with no driver call made and the store, the transaction
\* and the counters as they were; a status with its identifiers is never
\* refused by validation, and when it has no contact and the call returns,
\* the one row added to what the connection saw of application_status has
\* a null contact_id and is persisted.
C11_CreateStatusValidatesIdentifiers ==
    (Returned({"Create"}) /\ last.table = "application_status") =>
        LET v == last.arg
        IN  /\ LacksIdentifier(v) =>
                  /\ last.exc = "ValueError"
                  /\ last.trace = <<>>
                  /\ db = last.pre.db /\ work = last.pre.work
                  /\ inTxn = last.pre.inTxn /\ autoinc = last.pre.autoinc
            /\ ~LacksIdentifier(v) => last.exc # "ValueError" /\ last.trace # <<>>
            /\ (v.contact = NoneObj /\ last.exc = NoExc) =>
                  LET id == last.val.status_id
                  IN  /\ id \notin DOMAIN last.pre.work.application_status
                      /\ DOMAIN db.application_status =
                            DOMAIN last.pre.work.application_status \cup {id}
                      /\ db.application_status[id].contact_id = NoneId
                      /\ db.application_status[id].application_id =
                            v.application.application_id

\* A status with a contact that has no identifier was refused although its
\* application exists in the store.
C11_Witness ==
    /\ Returned({"Create"}) /\ last.table = "application_status"
    /\ last.arg.application.application_id \in DOMAIN db.application
    /\ last.arg.contact # NoneObj /\ last.arg.contact.contact_id = NoneId
    /\ last.exc = "ValueError"

\* ----------------------------------------------------------------- C12
\* C12: once the with-block over the DataProvider has been left, normally
\* or by an error raised inside it, the connection is closed, and the error
\* is not taken from the caller; close() on a connection that is already
\* closed calls nothing but is_connected(), changes nothing and returns.
C12_ClosedOnEveryExit ==
    /\ scope = "exited" => ~connected
    /\ Returned({"__exit__"}) =>
          /\ ~connected /\ ~inTxn /\ work = db /\ db = last.pre.db
          /\ last.exc = NoExc /\ last.val = NoneObj
    /\ (Returned({"close", "__exit__"}) /\ ~last.pre.connected) =>
          /\ last.exc = NoExc
          /\ last.trace = <<"is_connected">>
          /\ World = last.pre

\* The block was left by an error of a call inside it, with the connection
\* open and a transaction left open by that call; __exit__ closed it.
C12_Witness ==
    /\ Returned({"__exit__"}) /\ last.arg # NoExc
    /\ last.pre.connected /\ last.pre.inTxn
    /\ ~connected

\* ----------------------------------------------------------------- C13
\* Every foreign key of the tables t references a row of t.
ReferencesHold(t) ==
    /\ \A k \in DOMAIN t.contact : t.contact[k].company_id \in DOMAIN t.company
    /\ \A j \in DOMAIN t.job_posting : t.job_posting[j].company_id \in DOMAIN t.company
    /\ \A a \in DOMAIN t.application : t.application[a].job_id \in DOMAIN t.job_posting
    /\ \A x \in DOMAIN t.application_status :
          /\ t.application_status[x].application_id \in DOMAIN t.application
          /\ \/ t.application_status[x].contact_id = NoneId
             \/ t.application_status[x].contact_id \in DOMAIN t.contact

SelectFailed ==
    \/ Len(last.trace) >= 2 /\ last.trace[2] = "execute!"
    \/ Len(last.trace) >= 3 /\ last.trace[3] = "fetch!"

RollbackAttempted ==
    \E i \in DOMAIN last.trace : last.trace[i] \in {"rollback", "rollback!"}

\* C14: when the SELECT of a read fails, a rollback is attempted and the
\* error that reaches the caller is the failure of the SELECT, also when the
\* rollback itself fails.
C14_ReadFailurePropagatesOriginal ==
    (Returned(ReadOps) /\ SelectFailed) =>
        /\ RollbackAttempted
        /\ last.exc = (IF last.trace[2] = "execute!" THEN "execute" ELSE "fetch")

\* ----------------------------------------------------------------- C15
\* The read matched no row: no row has the identifier asked for, or the
\* table read is empty, in what the connection saw.
MatchedNoRow ==
    IF last.op = "ReadByID"
      THEN last.arg \notin DOMAIN last.pre.work[last.table]
      ELSE DOMAIN last.pre.work[last.table] = {}

\* A driver call of the last call raised.
DriverCallRaised ==
    \E i \in DOMAIN last.trace :
        last.trace[i] \in {"cursor!", "execute!", "fetch!", "close!", "rollback!", "commit!"}

\* C15: a read that matches no row fails only when a driver call failed:
\* otherwise ReadXByID returns absent and ReadAllX returns the empty
\* sequence, for the five entities, the join reads included.
C15_NoRowIsNotAnError ==
    (Returned(ReadOps) /\ MatchedNoRow) =>
        /\ last.exc # NoExc => DriverCallRaised
        /\ last.exc = NoExc =>
              last.val = (IF last.op = "ReadByID" THEN NoneObj ELSE <<>>)

\* A status was asked for by an identifier no row has, in a table that
\* holds other rows, and the read returned absent.
C15_Witness ==
    /\ Returned({"ReadByID"}) /\ last.table = "application_status"
    /\ last.arg \notin DOMAIN last.pre.work.application_status
    /\ DOMAIN last.pre.work.application_status # {}
    /\ last.exc = NoExc /\ last.val = NoneObj

\* ----------------------------------------------------------------- C16
\* C16: with other instances writing to the same database, an UpdateX(v)
\* that returns true had a row with v's identifier in the table when its
\* UPDATE ran.
C16_TrueOnlyIfUpdateHitRow ==
    (Returned({"Update"}) /\ last.exc = NoExc /\ last.val = TRUE) =>
        IdOf(last.table, last.arg) \in DOMAIN last.pre.work[last.table]

====
